---- MODULE Spec2Model ----
(***************************************************************************)
(* uaclient/config.py: the layered configuration (defaults, file,          *)
(* environment) built by parse_config, and the keyed cache of JSON/text    *)
(* files that UAConfig keeps under its data directory.                     *)
(*                                                                         *)
(* A Python str is a sequence of one-character strings.  A Python value    *)
(* is a pair <<type, payload>>:                                            *)
(*   <<"none", <<>>>>  <<"bool", b>>  <<"int", n>>  <<"str", chars>>       *)
(*   <<"list", <<v1, ..>>>>  <<"dict", << <<key1, v1>>, .. >>>>            *)
(* A mapping with str keys only used by key (cfg, os.environ's result) is  *)
(* a function from keys to values.                                         *)
(***************************************************************************)
EXTENDS Integers, Sequences, FiniteSets, TLC

VARIABLES
    environ,        \* os.environ, in iteration order: <<name, value>> pairs
    conf_files,     \* config files on disk: path -> document yaml.load gives
    parsed,         \* what the last parse_config call did
    data_dir,       \* UAConfig.cfg['data_dir']
    dir_exists,     \* whether the data directory exists on disk
    files,          \* regular files on disk: path -> text
    m_contracts,    \* UAConfig._contracts
    m_entitlements, \* UAConfig._entitlements
    m_machine_token,\* UAConfig._machine_token
    returned,       \* per memoized accessor: the first non-empty value it returned
    ops,            \* number of operations done so far
    last            \* the last operation and what it returned

vars == <<environ, conf_files, parsed, data_dir, dir_exists, files,
          m_contracts, m_entitlements, m_machine_token, returned, ops, last>>

cfgvars == <<environ, conf_files, parsed>>
cachevars == <<data_dir, dir_exists, files, m_contracts, m_entitlements,
               m_machine_token, returned, ops, last>>

----------------------------------------------------------------------------
(* Bounds of the model *)

\* entries of os.environ
MaxEnv == 2
\* operations on one UAConfig instance and its data directory
MaxOps == 3

----------------------------------------------------------------------------
(* Python values *)

None == <<"none", <<>>>>
PyStr(s) == <<"str", s>>
PyInt(n) == <<"int", n>>
PyBool(b) == <<"bool", b>>
PyList(items) == <<"list", items>>
PyDict(pairs) == <<"dict", pairs>>

IsStr(v) == v[1] = "str"

\* bool(v)
Truthy(v) ==
    CASE v[1] = "none" -> FALSE
      [] v[1] = "bool" -> v[2]
      [] v[1] = "int" -> v[2] # 0
      [] OTHER -> Len(v[2]) > 0

----------------------------------------------------------------------------
(* str methods *)

LowerLetters == <<"a","b","c","d","e","f","g","h","i","j","k","l","m","n","o","p","q","r","s","t","u","v","w","x","y","z">>
UpperLetters == <<"A","B","C","D","E","F","G","H","I","J","K","L","M","N","O","P","Q","R","S","T","U","V","W","X","Y","Z">>

LowerChar(c) ==
    IF \E i \in 1..26 : UpperLetters[i] = c
    THEN LowerLetters[CHOOSE i \in 1..26 : UpperLetters[i] = c]
    ELSE c

UpperChar(c) ==
    IF \E i \in 1..26 : LowerLetters[i] = c
    THEN UpperLetters[CHOOSE i \in 1..26 : LowerLetters[i] = c]
    ELSE c

\* s.lower()
str_lower(s) == IF s = <<>> THEN <<>> ELSE [i \in 1..Len(s) |-> LowerChar(s[i])]

\* s.upper()
str_upper(s) == IF s = <<>> THEN <<>> ELSE [i \in 1..Len(s) |-> UpperChar(s[i])]

\* s.startswith(p)
startswith(s, p) == Len(s) >= Len(p) /\ SubSeq(s, 1, Len(p)) = p

\* s.endswith(p)
endswith(s, p) == Len(s) >= Len(p) /\ SubSeq(s, Len(s) - Len(p) + 1, Len(s)) = p

\* s[n:]
str_from(s, n) == SubSeq(s, n + 1, Len(s))

\* s.find(c, start): the 0-based index of the first c at or after start, or -1
str_find(s, c, start) ==
    IF \E i \in (start + 1)..Len(s) : s[i] = c
    THEN (CHOOSE i \in (start + 1)..Len(s) :
            s[i] = c /\ \A j \in (start + 1)..(i - 1) : s[j] # c) - 1
    ELSE -1

\* s.rfind(c): the 0-based index of the last c, or -1
str_rfind(s, c) ==
    IF \E i \in 1..Len(s) : s[i] = c
    THEN (CHOOSE i \in 1..Len(s) :
            s[i] = c /\ \A j \in (i + 1)..Len(s) : s[j] # c) - 1
    ELSE -1

\* s.rstrip(c)
RECURSIVE str_rstrip(_, _)
str_rstrip(s, c) ==
    IF s # <<>> /\ s[Len(s)] = c THEN str_rstrip(SubSeq(s, 1, Len(s) - 1), c) ELSE s

----------------------------------------------------------------------------
(* os.path *)

\* os.path.join(a, b)
path_join(a, b) ==
    IF startswith(b, <<"/">>) THEN b
    ELSE IF a = <<>> \/ endswith(a, <<"/">>) THEN a \o b
    ELSE a \o <<"/">> \o b

\* os.path.basename(p)
basename(p) == str_from(p, str_rfind(p, "/") + 1)

\* the home directory the password database gives the running user
PwdHome == <<"/","r">>

\* os.environ as a mapping: the names in env
EnvNames(env) == {env[i][1] : i \in 1..Len(env)}

\* os.environ.get(name), None when unset
environ_get(env, name) ==
    IF name \in EnvNames(env)
    THEN PyStr(env[CHOOSE i \in 1..Len(env) : env[i][1] = name][2])
    ELSE None

\* os.path.expanduser(path): '~' and '~/...' only resolve; '~user' looks the
\* user up in the password database, which holds no such user here
expanduser(env, path) ==
    IF ~startswith(path, <<"~">>) THEN path
    ELSE LET f == str_find(path, "/", 1)
             i == IF f < 0 THEN Len(path) ELSE f
         IN IF i # 1 THEN path
            ELSE LET home == environ_get(env, <<"H","O","M","E">>)
                     userhome == str_rstrip(IF home = None THEN PwdHome ELSE home[2], "/")
                     res == userhome \o str_from(path, i)
                 IN IF res = <<>> THEN <<"/">> ELSE res

----------------------------------------------------------------------------
(* parse_config *)

DEFAULT_CONFIG_FILE == <<"/","e","t","c","/","u","b","u","n","t","u","-","a","d","v","a","n","t","a","g","e","/","u","a","c","l","i","e","n","t",".","c","o","n","f">>
BASE_AUTH_URL == <<"h","t","t","p","s",":","/","/","l","o","g","i","n",".","u","b","u","n","t","u",".","c","o","m">>
BASE_SERVICE_URL == <<"h","t","t","p","s",":","/","/","u","a","s","e","r","v","i","c","e",".","c","a","n","o","n","i","c","a","l",".","c","o","m">>
\* logging.INFO
logging_INFO == 20

K_sso_auth_url == <<"s","s","o","_","a","u","t","h","_","u","r","l">>
K_service_url == <<"s","e","r","v","i","c","e","_","u","r","l">>
K_data_dir == <<"d","a","t","a","_","d","i","r">>
K_log_level == <<"l","o","g","_","l","e","v","e","l">>

CONFIG_DEFAULTS ==
    (K_sso_auth_url :> PyStr(BASE_AUTH_URL))
    @@ (K_service_url :> PyStr(BASE_SERVICE_URL))
    @@ (K_data_dir :> PyStr(<<"/","v","a","r","/","l","i","b","/","u","b","u","n","t","u","-","a","d","v","a","n","t","a","g","e">>))
    @@ (K_log_level :> PyInt(logging_INFO))

\* os.getcwd()
getcwd == <<"/","w">>

\* d.update(e) for mappings: e's entries win
dict_update(d, e) == e @@ d

\* env_keys with the name kept as it is written: key[3:] for key.lower()[3:]
RECURSIVE env_keys_no_lower(_)
env_keys_no_lower(env) ==
    IF env = <<>> THEN <<>>
    ELSE LET before == env_keys_no_lower(SubSeq(env, 1, Len(env) - 1))
             key == env[Len(env)][1]
             value == env[Len(env)][2]
         IN IF startswith(key, <<"U","A","_">>)
            THEN (str_from(key, 3) :> PyStr(value)) @@ before
            ELSE before

\* the env_keys mapping of lines 168-171, built in iteration order, so that of
\* two names with the same lowercase form the later one stays
RECURSIVE env_keys(_)
env_keys(env) ==
    IF env = <<>> THEN <<>>
    ELSE LET before == env_keys(SubSeq(env, 1, Len(env) - 1))
             key == env[Len(env)][1]
             value == env[Len(env)][2]
         IN IF startswith(key, <<"U","A","_">>)
            THEN (str_from(str_lower(key), 3) :> PyStr(value)) @@ before
            ELSE before

\* the path of the file parse_config reads, lines 157-164
resolve_config_path(env, disk, config_path) ==
    LET path0 == IF ~Truthy(config_path) THEN DEFAULT_CONFIG_FILE ELSE config_path[2]
        local_cfg == path_join(getcwd, basename(path0))
        path1 == IF local_cfg \in DOMAIN disk THEN local_cfg ELSE path0
        envfile == environ_get(env, <<"U","A","_","C","O","N","F","I","G","_","F","I","L","E">>)
    IN IF Truthy(envfile) THEN envfile[2] ELSE path1

Returned(v) == [out |-> "ok", exc |-> "", val |-> v]
Raised(e) == [out |-> "raise", exc |-> e, val |-> None]

\* parse_config(config_path) in environment env with the config files disk
parse_config(env, disk, config_path) ==
    LET path == resolve_config_path(env, disk, config_path)
        cfg0 == CONFIG_DEFAULTS
        loads == path \in DOMAIN disk
        doc == disk[path]
    IN IF loads /\ doc[1] # "mapping"
       THEN Raised("TypeError")            \* cfg.update(None)
       ELSE LET cfg1 == IF loads THEN dict_update(cfg0, doc[2]) ELSE cfg0
                cfg2 == dict_update(cfg1, env_keys(env))
            IN IF ~IsStr(cfg2[K_log_level])
               THEN Raised("AttributeError")   \* an int has no upper()
               ELSE LET cfg3 == [cfg2 EXCEPT ![K_log_level] = PyStr(str_upper(@[2]))]
                    IN IF ~IsStr(cfg3[K_data_dir])
                       THEN Raised("TypeError")    \* expanduser of a non-str
                       ELSE Returned([cfg3 EXCEPT ![K_data_dir] =
                                        PyStr(expanduser(env, @[2]))])

----------------------------------------------------------------------------
(* json.dumps and json.loads, on the characters the model's texts hold:     *)
(* no fraction or exponent in a number, no \u escape, no NaN or Infinity.   *)

Digits == <<"0","1","2","3","4","5","6","7","8","9">>
IsDigit(c) == \E i \in 1..10 : Digits[i] = c
DigitValue(c) == (CHOOSE i \in 1..10 : Digits[i] = c) - 1

RECURSIVE NatToStr(_)
NatToStr(n) ==
    IF n < 10 THEN <<Digits[n + 1]>>
    ELSE NatToStr(n \div 10) \o <<Digits[(n % 10) + 1]>>

\* str(n) for an int
IntToStr(n) == IF n < 0 THEN <<"-">> \o NatToStr(-n) ELSE NatToStr(n)

\* the escapes of one character inside a JSON string
EscapeChar(c) ==
    IF c = "\"" THEN <<"\\","\"">>
    ELSE IF c = "\\" THEN <<"\\","\\">>
    ELSE IF c = "\n" THEN <<"\\","n">>
    ELSE IF c = "\t" THEN <<"\\","t">>
    ELSE <<c>>

RECURSIVE EscapeStr(_)
EscapeStr(s) == IF s = <<>> THEN <<>> ELSE EscapeChar(s[1]) \o EscapeStr(Tail(s))

\* json.dumps(v), with the default separators ', ' and ': '
RECURSIVE json_dumps(_)
RECURSIVE dumps_items(_)
RECURSIVE dumps_members(_)
json_dumps(v) ==
    CASE v[1] = "none" -> <<"n","u","l","l">>
      [] v[1] = "bool" -> IF v[2] THEN <<"t","r","u","e">> ELSE <<"f","a","l","s","e">>
      [] v[1] = "int" -> IntToStr(v[2])
      [] v[1] = "str" -> <<"\"">> \o EscapeStr(v[2]) \o <<"\"">>
      [] v[1] = "list" -> <<"[">> \o dumps_items(v[2]) \o <<"]">>
      [] v[1] = "dict" -> <<"{">> \o dumps_members(v[2]) \o <<"}">>
dumps_items(items) ==
    IF items = <<>> THEN <<>>
    ELSE IF Len(items) = 1 THEN json_dumps(items[1])
    ELSE json_dumps(items[1]) \o <<","," ">> \o dumps_items(Tail(items))
dumps_members(pairs) ==
    IF pairs = <<>> THEN <<>>
    ELSE LET one == <<"\"">> \o EscapeStr(pairs[1][1]) \o <<"\"",":"," ">> \o json_dumps(pairs[1][2])
         IN IF Len(pairs) = 1 THEN one
            ELSE one \o <<","," ">> \o dumps_members(Tail(pairs))

Whitespace == {" ", "\t", "\n", "\r"}

RECURSIVE skip_ws(_)
skip_ws(s) == IF s # <<>> /\ s[1] \in Whitespace THEN skip_ws(Tail(s)) ELSE s

Parsed(v, rest) == [ok |-> TRUE, val |-> v, rest |-> rest]
NoParse == [ok |-> FALSE, val |-> None, rest |-> <<>>]

\* d[k] = v on a dict kept as a sequence of <<key, value>> pairs
dict_set(pairs, k, v) ==
    IF \E i \in 1..Len(pairs) : pairs[i][1] = k
    THEN [i \in 1..Len(pairs) |-> IF pairs[i][1] = k THEN <<k, v>> ELSE pairs[i]]
    ELSE Append(pairs, <<k, v>>)

\* the rest of a JSON string after its opening quote; acc is what was read
RECURSIVE parse_string(_, _)
parse_string(s, acc) ==
    IF s = <<>> THEN NoParse
    ELSE IF s[1] = "\"" THEN Parsed(PyStr(acc), Tail(s))
    ELSE IF s[1] = "\\" THEN
        IF Len(s) < 2 THEN NoParse
        ELSE IF s[2] \in {"\"", "\\", "/"}
             THEN parse_string(SubSeq(s, 3, Len(s)), Append(acc, s[2]))
        ELSE IF s[2] = "n" THEN parse_string(SubSeq(s, 3, Len(s)), Append(acc, "\n"))
        ELSE IF s[2] = "t" THEN parse_string(SubSeq(s, 3, Len(s)), Append(acc, "\t"))
        ELSE IF s[2] = "r" THEN parse_string(SubSeq(s, 3, Len(s)), Append(acc, "\r"))
        ELSE NoParse
    ELSE IF s[1] \in {"\t", "\n", "\r"} THEN NoParse    \* a control character
    ELSE parse_string(Tail(s), Append(acc, s[1]))

\* the digits s starts with, as a number; n is the value read so far
RECURSIVE parse_digits(_, _)
parse_digits(s, n) ==
    IF s # <<>> /\ IsDigit(s[1]) THEN parse_digits(Tail(s), 10 * n + DigitValue(s[1]))
    ELSE Parsed(PyInt(n), s)

\* the number r read after a '-'
negated(r) == IF r.ok THEN Parsed(PyInt(-r.val[2]), r.rest) ELSE r

\* (0|[1-9][0-9]*)
parse_natural(d) ==
    IF d = <<>> \/ ~IsDigit(d[1]) THEN NoParse
    ELSE IF d[1] = "0" THEN Parsed(PyInt(0), Tail(d))
    ELSE parse_digits(d, 0)

\* -?(0|[1-9][0-9]*)
parse_number(s) ==
    IF s[1] = "-" THEN negated(parse_natural(Tail(s))) ELSE parse_natural(s)

RECURSIVE parse_value(_)
RECURSIVE parse_elems(_, _)
RECURSIVE parse_members(_, _)

\* an array after its '[' and the whitespace that follows
parse_array(t) ==
    IF t # <<>> /\ t[1] = "]" THEN Parsed(PyList(<<>>), Tail(t))
    ELSE parse_elems(t, <<>>)

\* an object after its '{' and the whitespace that follows
parse_object(t) ==
    IF t # <<>> /\ t[1] = "}" THEN Parsed(PyDict(<<>>), Tail(t))
    ELSE parse_members(t, <<>>)

\* one JSON value at the start of s
parse_value(s) ==
    IF s = <<>> THEN NoParse
    ELSE IF s[1] = "\"" THEN parse_string(Tail(s), <<>>)
    ELSE IF s[1] = "{" THEN parse_object(skip_ws(Tail(s)))
    ELSE IF s[1] = "[" THEN parse_array(skip_ws(Tail(s)))
    ELSE IF startswith(s, <<"n","u","l","l">>) THEN Parsed(None, str_from(s, 4))
    ELSE IF startswith(s, <<"t","r","u","e">>) THEN Parsed(PyBool(TRUE), str_from(s, 4))
    ELSE IF startswith(s, <<"f","a","l","s","e">>) THEN Parsed(PyBool(FALSE), str_from(s, 5))
    ELSE IF s[1] = "-" \/ IsDigit(s[1]) THEN parse_number(s)
    ELSE NoParse

\* after the element r of an array and the whitespace behind it, t: the end
\* of the array, or a ',' and the elements that follow
elems_after(r, t, acc) ==
    IF ~r.ok \/ t = <<>> THEN NoParse
    ELSE IF t[1] = "]" THEN Parsed(PyList(Append(acc, r.val)), Tail(t))
    ELSE IF t[1] = "," THEN parse_elems(skip_ws(Tail(t)), Append(acc, r.val))
    ELSE NoParse

elems_value(r, acc) == elems_after(r, skip_ws(r.rest), acc)

\* the elements of an array from s on, up to its ']'; acc holds those read
parse_elems(s, acc) == elems_value(parse_value(s), acc)

\* after the member k: r of an object and the whitespace behind it, t: the
\* end of the object, or a ',' and the members that follow
members_after(r, t, acc) ==
    IF ~r.ok \/ t = <<>> THEN NoParse
    ELSE IF t[1] = "}" THEN Parsed(PyDict(acc), Tail(t))
    ELSE IF t[1] = "," THEN parse_members(skip_ws(Tail(t)), acc)
    ELSE NoParse

members_value(k, r) == [ok |-> r.ok, key |-> k, val |-> r.val, rest |-> r.rest]

members_set(m, acc) ==
    members_after(m, skip_ws(m.rest), IF m.ok THEN dict_set(acc, m.key, m.val) ELSE acc)

\* after the key k of a member and the whitespace behind it, c: the ':' and
\* the value
members_colon(k, c, acc) ==
    IF ~k.ok \/ c = <<>> \/ c[1] # ":" THEN NoParse
    ELSE members_set(members_value(k.val[2], parse_value(skip_ws(Tail(c)))), acc)

members_key(k, acc) == members_colon(k, skip_ws(k.rest), acc)

\* the members of an object from s on, up to its '}'; acc holds those read
parse_members(s, acc) ==
    IF s = <<>> \/ s[1] # "\"" THEN NoParse
    ELSE members_key(parse_string(Tail(s), <<>>), acc)

\* the parse r of a whole text: nothing but whitespace may follow the value
whole_text(r) == IF r.ok /\ skip_ws(r.rest) = <<>> THEN r ELSE NoParse

\* json.loads(text): the value, or no parse (ValueError)
json_loads(text) == whole_text(parse_value(skip_ws(text)))

----------------------------------------------------------------------------
(* UAConfig: the cache files under the data directory *)

K_accounts == <<"a","c","c","o","u","n","t","s">>
K_account_contracts == <<"a","c","c","o","u","n","t","-","c","o","n","t","r","a","c","t","s">>
K_machine_token == <<"m","a","c","h","i","n","e","-","t","o","k","e","n">>
K_contractInfo == <<"c","o","n","t","r","a","c","t","I","n","f","o">>
K_resourceEntitlements == <<"r","e","s","o","u","r","c","e","E","n","t","i","t","l","e","m","e","n","t","s">>

\* UAConfig.data_paths
data_paths ==
    (K_accounts :> <<"a","c","c","o","u","n","t","s",".","j","s","o","n">>)
    @@ (K_account_contracts :> <<"a","c","c","o","u","n","t","-","c","o","n","t","r","a","c","t","s",".","j","s","o","n">>)
    @@ (<<"a","c","c","o","u","n","t","-","u","s","e","r","s">> :> <<"a","c","c","o","u","n","t","-","u","s","e","r","s",".","j","s","o","n">>)
    @@ (<<"m","a","c","h","i","n","e","-","c","o","n","t","r","a","c","t","s">> :> <<"m","a","c","h","i","n","e","-","c","o","n","t","r","a","c","t","s",".","j","s","o","n">>)
    @@ (<<"m","a","c","h","i","n","e","-","a","c","c","e","s","s","-","e","s","m">> :> <<"m","a","c","h","i","n","e","-","a","c","c","e","s","s","-","e","s","m",".","j","s","o","n">>)
    @@ (<<"m","a","c","h","i","n","e","-","a","c","c","e","s","s","-","f","i","p","s">> :> <<"m","a","c","h","i","n","e","-","a","c","c","e","s","s","-","f","i","p","s",".","j","s","o","n">>)
    @@ (<<"m","a","c","h","i","n","e","-","a","c","c","e","s","s","-","f","i","p","s","-","u","p","d","a","t","e","s">> :> <<"m","a","c","h","i","n","e","-","a","c","c","e","s","s","-","f","i","p","s","-","u","p","d","a","t","e","s",".","j","s","o","n">>)
    @@ (<<"m","a","c","h","i","n","e","-","a","c","c","e","s","s","-","l","i","v","e","p","a","t","c","h">> :> <<"m","a","c","h","i","n","e","-","a","c","c","e","s","s","-","l","i","v","e","p","a","t","c","h",".","j","s","o","n">>)
    @@ (<<"m","a","c","h","i","n","e","-","d","e","t","a","c","h">> :> <<"m","a","c","h","i","n","e","-","d","e","t","a","c","h",".","j","s","o","n">>)
    @@ (K_machine_token :> <<"m","a","c","h","i","n","e","-","t","o","k","e","n",".","j","s","o","n">>)
    @@ (<<"m","a","c","a","r","o","o","n">> :> <<"s","s","o","-","m","a","c","a","r","o","o","n",".","j","s","o","n">>)
    @@ (<<"o","a","u","t","h">> :> <<"s","s","o","-","o","a","u","t","h",".","j","s","o","n">>)

\* data_path without the table: every key is its own file name
data_path_verbatim(key) ==
    IF ~Truthy(key) THEN data_dir ELSE path_join(data_dir, key[2])

\* data_path with one file for all the keys the table does not have
data_path_default_file(key) ==
    IF ~Truthy(key) THEN data_dir
    ELSE IF key[2] \in DOMAIN data_paths THEN path_join(data_dir, data_paths[key[2]])
    ELSE path_join(data_dir, <<"c","a","c","h","e",".","j","s","o","n">>)

\* UAConfig.data_path(key); key is None or a str
data_path(key) ==
    IF ~Truthy(key) THEN data_dir
    ELSE IF key[2] \in DOMAIN data_paths THEN path_join(data_dir, data_paths[key[2]])
    ELSE path_join(data_dir, key[2])

\* os.path.dirname(p)
dirname(p) ==
    LET head == SubSeq(p, 1, str_rfind(p, "/") + 1)
    IN IF str_rstrip(head, "/") = <<>> THEN head ELSE str_rstrip(head, "/")

\* a directory's path without the trailing slashes that do not change it
NormDir(p) == IF p # <<>> /\ str_rstrip(p, "/") = <<>> THEN <<"/">> ELSE str_rstrip(p, "/")

\* the directories on disk when the data directory exists (d) or not: the
\* root, and the data directory
IsDirWhen(d, p) == p # <<>> /\ (NormDir(p) = <<"/">> \/ (d /\ NormDir(p) = NormDir(data_dir)))

\* os.path.exists(p) on the disk with the data directory existing or not (d)
\* and the files f
exists_at(d, f, p) == p \in DOMAIN f \/ IsDirWhen(d, p)

\* os.path.exists(p)
exists(p) == exists_at(dir_exists, files, p)

\* util.load_file(path) for a path that exists, on the disk with the files f
load_file(f, path) ==
    IF path \in DOMAIN f THEN Returned(PyStr(f[path]))
    ELSE Raised("IsADirectoryError")

\* the parse r as util.maybe_parse_json gives it
parsed_or_none(r) == IF r.ok THEN r.val ELSE None

\* util.maybe_parse_json(content): the parsed value, None when content is not JSON
maybe_parse_json(content) == parsed_or_none(json_loads(content))

\* line 132: json_content if json_content else content
json_or_content(json_content, content) ==
    Returned(IF Truthy(json_content) THEN json_content ELSE content)

\* lines 131-132 for the content that load_file gave, or its raise
read_content(content) ==
    IF content.out = "raise" THEN content
    ELSE json_or_content(maybe_parse_json(content.val[2]), content.val)

\* lines 127-132 for the path of the key
read_path(d, f, cache_path) ==
    IF ~exists_at(d, f, cache_path) THEN Returned(None)
    ELSE read_content(load_file(f, cache_path))

\* UAConfig.read_cache(key) on the disk with the data directory existing or
\* not (d) and the files f
read_cache_at(d, f, key) == read_path(d, f, data_path(key))

\* read_cache that never parses: the file's text as it is
read_cache_raw(key) ==
    LET cache_path == data_path(key)
    IN IF ~exists(cache_path) THEN Returned(None) ELSE load_file(files, cache_path)

\* read_cache that returns what maybe_parse_json gave, None for text that is
\* not JSON
read_cache_parsed_only(key) ==
    LET cache_path == data_path(key)
    IN IF ~exists(cache_path) THEN Returned(None)
       ELSE LET content == load_file(files, cache_path)
            IN IF content.out = "raise" THEN content
               ELSE Returned(maybe_parse_json(content.val[2]))

\* UAConfig.read_cache(key), on the disk as it is
read_cache(key) == read_cache_at(dir_exists, files, key)

\* util.write_file(filepath, content) once the data directory exists: the
\* files afterwards, and whether it raised
write_file(filepath, content) ==
    IF IsDirWhen(TRUE, filepath)
    THEN [res |-> Raised("IsADirectoryError"), files |-> files]
    ELSE IF ~IsDirWhen(TRUE, dirname(filepath))
    THEN [res |-> Raised("FileNotFoundError"), files |-> files]
    ELSE [res |-> Returned(None), files |-> (filepath :> content) @@ files]

\* line 139: the text written for content
text_of(content) == IF IsStr(content) THEN content[2] ELSE json_dumps(content)

\* what write_cache returns and the disk afterwards, given what write_file did
written(w) == [res |-> w.res, dir |-> TRUE, files |-> w.files]

\* UAConfig.write_cache(key, content): what it returns and the disk afterwards
write_cache(key, content) == written(write_file(data_path(key), text_of(content)))

\* machine_token that re-reads only while _machine_token is None
machine_token_is_none ==
    LET memo == IF m_machine_token = None
                THEN read_cache(PyStr(K_machine_token)).val
                ELSE m_machine_token
    IN [res |-> Returned(memo), memo |-> memo]

\* machine_token that reads the file at every access
machine_token_reread ==
    LET memo == read_cache(PyStr(K_machine_token)).val
    IN [res |-> Returned(memo), memo |-> memo]

\* a memoizing accessor that leaves memo in its field and returns it
memoized(memo) == [res |-> Returned(memo), memo |-> memo]

\* UAConfig.machine_token: the value returned and _machine_token afterwards
machine_token ==
    memoized(IF ~Truthy(m_machine_token)
             THEN read_cache(PyStr(K_machine_token)).val
             ELSE m_machine_token)

\* line 108 for the value machine_token returned
attached_with(token) == Returned(PyBool(Truthy(token.res.val)))

\* UAConfig.is_attached
is_attached == attached_with(machine_token)

\* line 90: self._contracts or []
contracts_or_empty(memo) ==
    [res |-> Returned(IF Truthy(memo) THEN memo ELSE PyList(<<>>)), memo |-> memo]

\* UAConfig.contracts: the value returned and _contracts afterwards
contracts ==
    contracts_or_empty(IF ~Truthy(m_contracts)
                       THEN read_cache(PyStr(K_account_contracts)).val
                       ELSE m_contracts)

\* what 'for x in v' goes through, for a v that can be iterated
IterItems(v) ==
    CASE v[1] = "list" -> v[2]
      [] v[1] = "str" -> IF v[2] = <<>> THEN <<>>
                         ELSE [i \in 1..Len(v[2]) |-> PyStr(<<v[2][i]>>)]
      [] v[1] = "dict" -> IF v[2] = <<>> THEN <<>>
                          ELSE [i \in 1..Len(v[2]) |-> PyStr(v[2][i][1])]
Iterable(v) == v[1] \in {"list", "str", "dict"}

\* v[k] for a str k
getitem(v, k) ==
    IF v[1] # "dict" THEN Raised("TypeError")
    ELSE IF \E i \in 1..Len(v[2]) : v[2][i][1] = k
    THEN Returned(v[2][CHOOSE i \in 1..Len(v[2]) : v[2][i][1] = k][2])
    ELSE Raised("KeyError")

\* lines 100-102 for the entitlement names of one contract
RECURSIVE ent_names_loop(_, _)
ent_names_loop(names, ents) ==
    IF names = <<>> THEN ents
    ELSE ent_names_loop(Tail(names),
            dict_set(ents, names[1][2],
                     read_cache(PyStr(<<"m","a","c","h","i","n","e","-","a","c","c","e","s","s","-">> \o names[1][2])).val))

RECURSIVE ent_loop(_, _)

\* lines 99-102 for one contract, given res, its resourceEntitlements or the
\* raise of line 99, then the contracts that follow
ent_contract(res, rest, ents) ==
    IF res.out = "raise" THEN [res |-> res, memo |-> PyDict(ents)]
    ELSE IF res.val[1] # "dict"
    THEN [res |-> Raised("AttributeError"), memo |-> PyDict(ents)]
    ELSE ent_loop(rest, ent_names_loop(IterItems(res.val), ents))

\* info['resourceEntitlements'], or the raise that gave no info
ent_info(info) ==
    IF info.out = "raise" THEN info ELSE getitem(info.val, K_resourceEntitlements)

\* lines 98-102 for the contracts left to go through: _entitlements
\* afterwards, and whether a contract of another shape raised
ent_loop(cs, ents) ==
    IF cs = <<>> THEN [res |-> Returned(PyDict(ents)), memo |-> PyDict(ents)]
    ELSE ent_contract(ent_info(getitem(cs[1], K_contractInfo)), Tail(cs), ents)

\* lines 97-103 given the value c that self.contracts returned
entitlements_of(c) ==
    IF ~Iterable(c) THEN [res |-> Raised("TypeError"), memo |-> PyDict(<<>>)]
    ELSE ent_loop(IterItems(c), <<>>)

\* what entitlements leaves and returns, given what self.contracts did (c)
\* and what lines 97-103 did (e)
ent_result(c, e) == [res |-> e.res, memo |-> e.memo, cmemo |-> c.memo]

ent_fresh(c) == ent_result(c, entitlements_of(c.res.val))

\* UAConfig.entitlements: the value returned (or the raise), and
\* _entitlements and _contracts afterwards
entitlements ==
    IF Truthy(m_entitlements)
    THEN [res |-> Returned(m_entitlements), memo |-> m_entitlements,
          cmemo |-> m_contracts]
    ELSE ent_fresh(contracts)

----------------------------------------------------------------------------
(* The calls and the disks of the model *)

T_empty == <<>>
T_plain == <<"p","l","a","i","n"," ","t","e","x","t">>
T_braces == <<"{","}">>
T_obj == <<"{","\"","a","\"",":"," ","1","}">>
V_obj == PyDict(<< <<<<"a">>, PyInt(1)>> >>)
V_obj2 == PyDict(<< <<<<"b">>, PyInt(2)>> >>)
V_list == PyList(<<PyInt(0), PyStr(<<"q","\"","\\">>), None, PyBool(TRUE)>>)
Contract(ents) ==
    PyDict(<< <<K_contractInfo, PyDict(<< <<K_resourceEntitlements, ents>> >>)>> >>)
C_esm == PyList(<<Contract(PyDict(<< <<<<"e","s","m">>, PyDict(<<>>)>> >>))>>)
C_none == PyList(<<Contract(PyDict(<<>>))>>)
C_bad == PyList(<<Contract(PyDict(<< <<<<"e","s","m">>, PyDict(<<>>)>> >>)), PyInt(0)>>)

K_x == <<"x">>
K_alias == <<"m","a","c","h","i","n","e","-","t","o","k","e","n",".","j","s","o","n">>
K_esm == <<"m","a","c","h","i","n","e","-","a","c","c","e","s","s","-","e","s","m">>
K_sub == <<"s","/","x">>

\* the contents written under an unrecognized key
AnyContents ==
    { PyStr(T_empty), PyStr(T_plain), PyStr(T_braces), PyStr(T_obj),
      V_obj, PyDict(<<>>), PyList(<<>>), PyInt(0), None, V_list }

\* the write_cache calls of the model: <<key, content>>
WriteCalls ==
    { <<PyStr(K_x), c>> : c \in AnyContents }
    \cup { <<PyStr(K_machine_token), c>> :
             c \in { V_obj, PyDict(<<>>), PyStr(T_plain), PyStr(T_empty),
                     PyStr(T_braces) } }
    \cup { <<PyStr(K_alias), PyStr(T_plain)>> }
    \cup { <<PyStr(K_account_contracts), c>> : c \in { C_esm, C_none, C_bad } }
    \cup { <<PyStr(K_esm), V_obj>> }
    \cup { <<PyStr(<<>>), PyStr(T_plain)>>, <<None, V_obj>> }
    \cup { <<PyStr(K_sub), PyStr(T_plain)>> }

\* the keys of the model
Keys == { c[1] : c \in WriteCalls }

\* what another process writes
ExternalWrites ==
    { <<data_path(PyStr(K_machine_token)), json_dumps(V_obj2)>>,
      <<data_path(PyStr(K_account_contracts)), json_dumps(C_esm)>> }

\* the data directory when the instance is made: missing, empty, or holding
\* what an earlier run cached
InitDisks ==
    { [dir |-> FALSE, files |-> <<>>],
      [dir |-> TRUE, files |-> <<>>],
      [dir |-> TRUE,
       files |-> (path_join(<<"/","d">>, <<"m","a","c","h","i","n","e","-","t","o","k","e","n",".","j","s","o","n">>) :> T_obj)],
      [dir |-> TRUE,
       files |-> (path_join(<<"/","d">>, <<"a","c","c","o","u","n","t","-","c","o","n","t","r","a","c","t","s",".","j","s","o","n">>) :> json_dumps(C_none))
                 @@ (path_join(<<"/","d">>, <<"m","a","c","h","i","n","e","-","a","c","c","e","s","s","-","e","s","m",".","j","s","o","n">>) :> T_obj)] }

NothingReturned == [machine_token |-> None, contracts |-> None, entitlements |-> None]
NoOp == [op |-> "none", key |-> None, arg |-> None, res |-> Returned(None), old |-> None]

\* the first non-empty value an accessor returned
Remember(name, res) ==
    IF returned[name] = None /\ res.out = "ok" /\ Truthy(res.val)
    THEN res.val ELSE returned[name]

\* parse_config is not part of the cache's specifications
NoConfig ==
    /\ environ = <<>>
    /\ conf_files = <<>>
    /\ parsed = [called |-> FALSE, arg |-> None, res |-> Raised("")]

\* a new UAConfig: nothing memoized
NewInstance ==
    /\ m_contracts = None
    /\ m_entitlements = None
    /\ m_machine_token = None
    /\ returned = NothingReturned
    /\ ops = 0
    /\ last = NoOp

Init ==
    /\ NoConfig
    /\ data_dir = <<"/","d">>
    /\ \E d \in InitDisks : dir_exists = d.dir /\ files = d.files
    /\ NewInstance

Step == ops < MaxOps /\ ops' = ops + 1

\* the disk and the record of a write_cache call that did w
Wrote(key, content, path, w) ==
    /\ dir_exists' = w.dir
    /\ files' = w.files
    /\ last' = [op |-> "write_cache", key |-> key, arg |-> content, res |-> w.res,
                old |-> IF path \in DOMAIN files THEN PyStr(files[path]) ELSE None]

\* a call of write_cache(key, content)
WriteCache(key, content) ==
    /\ Step
    /\ Wrote(key, content, data_path(key), write_cache(key, content))
    /\ UNCHANGED <<m_contracts, m_entitlements, m_machine_token, returned>>
    /\ UNCHANGED <<cfgvars, data_dir>>

\* read_cache that makes the data directory when it is missing, as
\* write_cache does
ReadCache_makedirs(key) ==
    /\ Step
    /\ dir_exists' = TRUE
    /\ last' = [op |-> "read_cache", key |-> key, arg |-> None, res |-> read_cache(key),
                old |-> None]
    /\ UNCHANGED <<files, m_contracts, m_entitlements, m_machine_token, returned>>
    /\ UNCHANGED <<cfgvars, data_dir>>

\* a call of read_cache(key)
ReadCache(key) ==
    /\ Step
    /\ last' = [op |-> "read_cache", key |-> key, arg |-> None, res |-> read_cache(key),
                old |-> None]
    /\ UNCHANGED <<dir_exists, files, m_contracts, m_entitlements, m_machine_token,
                   returned>>
    /\ UNCHANGED <<cfgvars, data_dir>>

\* a read of the accounts property
Accounts ==
    /\ Step
    /\ last' = [op |-> "accounts", key |-> None, arg |-> None,
                res |-> read_cache(PyStr(K_accounts)), old |-> None]
    /\ UNCHANGED <<dir_exists, files, m_contracts, m_entitlements, m_machine_token,
                   returned>>
    /\ UNCHANGED <<cfgvars, data_dir>>

\* the fields and the record of a read of contracts that did c
ReadContracts(c) ==
    /\ m_contracts' = c.memo
    /\ returned' = [returned EXCEPT !.contracts = Remember("contracts", c.res)]
    /\ last' = [op |-> "contracts", key |-> None, arg |-> None, res |-> c.res,
                old |-> None]

\* a read of the contracts property
Contracts ==
    /\ Step
    /\ ReadContracts(contracts)
    /\ UNCHANGED <<dir_exists, files, m_entitlements, m_machine_token>>
    /\ UNCHANGED <<cfgvars, data_dir>>

\* the fields and the record of a read of entitlements that did e; the read
\* went through self.contracts, which returned cres, unless memoized is true
ReadEntitlements(e, memoized_already, cres) ==
    /\ m_entitlements' = e.memo
    /\ m_contracts' = e.cmemo
    /\ returned' = [returned EXCEPT
                      !.entitlements = Remember("entitlements", e.res),
                      !.contracts = IF memoized_already THEN @
                                    ELSE Remember("contracts", cres)]
    /\ last' = [op |-> "entitlements", key |-> None, arg |-> None, res |-> e.res,
                old |-> None]

\* a read of the entitlements property
Entitlements ==
    /\ Step
    /\ ReadEntitlements(entitlements, Truthy(m_entitlements),
                        Returned(IF Truthy(entitlements.cmemo) THEN entitlements.cmemo
                                 ELSE PyList(<<>>)))
    /\ UNCHANGED <<dir_exists, files, m_machine_token>>
    /\ UNCHANGED <<cfgvars, data_dir>>

\* the field and the record of a read of machine_token (op) that did t and
\* returned res
ReadMachineToken(op, t, res) ==
    /\ m_machine_token' = t.memo
    /\ returned' = [returned EXCEPT
                      !.machine_token = Remember("machine_token", t.res)]
    /\ last' = [op |-> op, key |-> None, arg |-> None, res |-> res, old |-> None]

\* a read of the machine_token property
MachineToken ==
    /\ Step
    /\ ReadMachineToken("machine_token", machine_token, machine_token.res)
    /\ UNCHANGED <<dir_exists, files, m_contracts, m_entitlements>>
    /\ UNCHANGED <<cfgvars, data_dir>>

\* a read of the is_attached property
IsAttached ==
    /\ Step
    /\ ReadMachineToken("is_attached", machine_token, is_attached)
    /\ UNCHANGED <<dir_exists, files, m_contracts, m_entitlements>>
    /\ UNCHANGED <<cfgvars, data_dir>>

\* another process removes a cache file
ExternalDelete(path) ==
    /\ Step
    /\ path \in DOMAIN files
    /\ files' = [p \in DOMAIN files \ {path} |-> files[p]]
    /\ last' = [op |-> "external_delete", key |-> PyStr(path), arg |-> None,
                res |-> Returned(None), old |-> None]
    /\ UNCHANGED <<dir_exists, m_contracts, m_entitlements, m_machine_token, returned>>
    /\ UNCHANGED <<cfgvars, data_dir>>

\* another process writes a cache file
ExternalWrite(path, text) ==
    /\ Step
    /\ dir_exists
    /\ files' = (path :> text) @@ files
    /\ last' = [op |-> "external_write", key |-> PyStr(path), arg |-> PyStr(text),
                res |-> Returned(None), old |-> None]
    /\ UNCHANGED <<dir_exists, m_contracts, m_entitlements, m_machine_token, returned>>
    /\ UNCHANGED <<cfgvars, data_dir>>

Next ==
    \/ \E c \in WriteCalls : WriteCache(c[1], c[2])
    \/ \E key \in Keys : ReadCache(key)
    \/ Accounts
    \/ Contracts
    \/ Entitlements
    \/ MachineToken
    \/ IsAttached
    \/ \E path \in DOMAIN files : ExternalDelete(path)
    \/ \E w \in ExternalWrites : ExternalWrite(w[1], w[2])

Spec == Init /\ [][Next]_vars

----------------------------------------------------------------------------
(* data_path on its own: the data directories and keys it is applied to *)

DataDirs == { <<"/","d">>, <<"/","d","/">>, <<"/","v","a","r","/","l","i","b","/","u","b","u","n","t","u","-","a","d","v","a","n","t","a","g","e">>, <<"r","e","l">> }

\* the names of the cache files' table
TableNames ==
    { <<"a","c","c","o","u","n","t","s">>, <<"a","c","c","o","u","n","t","-","c","o","n","t","r","a","c","t","s">>, <<"a","c","c","o","u","n","t","-","u","s","e","r","s">>, <<"m","a","c","h","i","n","e","-","c","o","n","t","r","a","c","t","s">>,
      <<"m","a","c","h","i","n","e","-","a","c","c","e","s","s","-","e","s","m">>, <<"m","a","c","h","i","n","e","-","a","c","c","e","s","s","-","f","i","p","s">>, <<"m","a","c","h","i","n","e","-","a","c","c","e","s","s","-","f","i","p","s","-","u","p","d","a","t","e","s">>,
      <<"m","a","c","h","i","n","e","-","a","c","c","e","s","s","-","l","i","v","e","p","a","t","c","h">>, <<"m","a","c","h","i","n","e","-","d","e","t","a","c","h">>, <<"m","a","c","h","i","n","e","-","t","o","k","e","n">>,
      <<"s","s","o","-","m","a","c","a","r","o","o","n">>, <<"s","s","o","-","o","a","u","t","h">> }

PathKeys ==
    { PyStr(n) : n \in TableNames }
    \cup { PyStr(n) : n \in DOMAIN data_paths }
    \cup { None, PyStr(<<>>), PyStr(<<"u","n","k","n","o","w","n","-","k","e","y">>), PyStr(K_alias), PyStr(K_sub),
           PyStr(<<"/","a","b","s">>) }

InitPath ==
    /\ NoConfig
    /\ data_dir \in DataDirs
    /\ dir_exists \in BOOLEAN
    /\ files = <<>>
    /\ NewInstance

\* a call of data_path(key)
DataPath(key) ==
    /\ last' = [op |-> "data_path", key |-> key, arg |-> None,
                res |-> Returned(PyStr(data_path(key))), old |-> None]
    /\ UNCHANGED <<dir_exists, files, m_contracts, m_entitlements, m_machine_token,
                   returned, ops>>
    /\ UNCHANGED <<cfgvars, data_dir>>

NextPath == \E key \in PathKeys : DataPath(key)

SpecPath == InitPath /\ [][NextPath]_vars

----------------------------------------------------------------------------
(* The environment and the disk parse_config runs in *)

\* os.environ entries the model draws from
EnvPairs ==
    { <<<<"U","A","_","L","O","G","_","L","E","V","E","L">>, <<"d","e","b","u","g">>>>,
      <<<<"U","A","_","l","o","g","_","l","e","v","e","l">>, <<"E","r","r","o","r">>>>,
      <<<<"U","A","_","D","A","T","A","_","D","I","R">>, <<"~","/","d">>>>,
      <<<<"U","A","_","D","A","T","A","_","D","I","R">>, <<"/","v">>>>,
      <<<<"U","A","_","C","O","N","F","I","G","_","F","I","L","E">>, <<>>>>,
      <<<<"U","A","_","C","O","N","F","I","G","_","F","I","L","E">>, <<"/","e",".","c","o","n","f">>>>,
      <<<<"U","A","_","F","o","o">>, <<"x">>>>,
      <<<<"u","a","_","f","o","o">>, <<"y">>>>,
      <<<<"H","O","M","E">>, <<"/","h","/">>>> }

\* os.environ: at most MaxEnv entries, no name twice
EnvSeqs ==
    UNION { { e \in [1..n -> EnvPairs] :
                \A i, j \in 1..n : i # j => e[i][1] # e[j][1] } : n \in 0..MaxEnv }

\* the documents yaml.load gives for the config files of the model
DocFull ==
    <<"mapping", (K_log_level :> PyStr(<<"w","a","r","n","i","n","g">>))
                 @@ (K_data_dir :> PyStr(<<"~","/","f">>))
                 @@ (<<"f","o","o">> :> PyStr(<<"f">>))>>
DocIntLevel == <<"mapping", (K_log_level :> PyInt(10))>>
DocEmpty == None                           \* an empty file

ExplicitPath == <<"/","o","/","u","a","c","l","i","e","n","t",".","c","o","n","f">>
LocalPath == <<"/","w","/","u","a","c","l","i","e","n","t",".","c","o","n","f">>
EnvPath == <<"/","e",".","c","o","n","f">>
ConfPaths == { DEFAULT_CONFIG_FILE, ExplicitPath, LocalPath, EnvPath }

\* the documents the model puts at each path
DocsAt(p) ==
    IF p = DEFAULT_CONFIG_FILE THEN { DocFull, DocIntLevel, DocEmpty }
    ELSE IF p = EnvPath THEN { DocFull, DocEmpty }
    ELSE IF p = LocalPath THEN { DocIntLevel }
    ELSE { DocFull }

Disks ==
    UNION { { f \in [P -> { DocFull, DocIntLevel, DocEmpty }] :
                \A p \in P : f[p] \in DocsAt(p) } : P \in SUBSET ConfPaths }

\* the config_path argument
ConfigPathArgs == { None, PyStr(ExplicitPath) }

InitConfig ==
    /\ environ \in EnvSeqs
    /\ conf_files \in Disks
    /\ parsed = [called |-> FALSE, arg |-> None, res |-> Raised("")]
    /\ data_dir = <<"/","d">>
    /\ dir_exists = FALSE
    /\ files = <<>>
    /\ NewInstance

\* a call of parse_config(config_path)
ParseConfig ==
    /\ \E config_path \in ConfigPathArgs :
         parsed' = [called |-> TRUE, arg |-> config_path,
                    res |-> parse_config(environ, conf_files, config_path)]
    /\ UNCHANGED <<environ, conf_files>>
    /\ UNCHANGED cachevars

NextConfig == ParseConfig

SpecConfig == InitConfig /\ [][NextConfig]_vars

----------------------------------------------------------------------------
(* Claims about parse_config *)

HasUAVar == \E i \in 1..Len(environ) : startswith(environ[i][1], <<"U","A","_">>)
ResolvedPath == resolve_config_path(environ, conf_files, parsed.arg)

\* the defaults, log_level as an upper-case level name, data_dir expanded
ExpectedDefaults ==
    (K_sso_auth_url :> PyStr(<<"h","t","t","p","s",":","/","/","l","o","g","i","n",".","u","b","u","n","t","u",".","c","o","m">>))
    @@ (K_service_url :> PyStr(<<"h","t","t","p","s",":","/","/","u","a","s","e","r","v","i","c","e",".","c","a","n","o","n","i","c","a","l",".","c","o","m">>))
    @@ (K_data_dir :> PyStr(<<"/","v","a","r","/","l","i","b","/","u","b","u","n","t","u","-","a","d","v","a","n","t","a","g","e">>))
    @@ (K_log_level :> PyStr(<<"I","N","F","O">>))

\* C1: with no config file at the resolved path and no UA_ variable,
\* parse_config returns normally and its result is the default mapping, with
\* log_level an upper-case level name and data_dir expanded.
C1_DefaultsReturned ==
    (parsed.called /\ ~HasUAVar /\ ResolvedPath \notin DOMAIN conf_files)
        => (parsed.res.out = "ok" /\ parsed.res.val = ExpectedDefaults)

\* the entries of the environment that set key k
EnvFor(k) ==
    { i \in 1..Len(environ) :
        /\ startswith(environ[i][1], <<"U","A","_">>)
        /\ str_from(str_lower(environ[i][1]), 3) = k }

FileLoaded == ResolvedPath \in DOMAIN conf_files
FileDoc == conf_files[ResolvedPath][2]

\* the value the layers give key k before the post-processing: the file's
\* if the file has k, else the default
BelowEnv(k) ==
    IF FileLoaded /\ k \in DOMAIN FileDoc THEN FileDoc[k] ELSE CONFIG_DEFAULTS[k]

\* lines 173-174 applied to the value v of key k
PostProcessed(k, v) ==
    IF k = K_log_level THEN PyStr(str_upper(v[2]))
    ELSE IF k = K_data_dir THEN PyStr(expanduser(environ, v[2]))
    ELSE v

\* C2 as stated: in the mapping parse_config returns, every variable UA_<NAME>
\* gives key lowercase(<NAME>) its value (log_level upper-cased and data_dir
\* user-expanded, as lines 173-174 leave them), and a key no variable sets has
\* the file's value, else the default.
C2_EveryVariableWins ==
    (parsed.called /\ parsed.res.out = "ok") =>
        \A k \in DOMAIN parsed.res.val :
            /\ \A i \in EnvFor(k) :
                 parsed.res.val[k] = PostProcessed(k, PyStr(environ[i][2]))
            /\ EnvFor(k) = {} => parsed.res.val[k] = PostProcessed(k, BelowEnv(k))

\* C2 (amended): in the mapping parse_config returns, the keys are those of
\* the defaults, the file and the UA_ variables; each key's value is the value
\* of the variable UA_<NAME> with lowercase(<NAME>) = key that comes last in
\* the environment's iteration order, else the file's, else the default; and
\* log_level is that value upper-cased, data_dir that value user-expanded.
C2_EnvFileDefault ==
    (parsed.called /\ parsed.res.out = "ok") =>
        /\ DOMAIN parsed.res.val =
              DOMAIN CONFIG_DEFAULTS
              \cup (IF FileLoaded THEN DOMAIN FileDoc ELSE {})
              \cup { str_from(str_lower(environ[i][1]), 3) :
                       i \in { j \in 1..Len(environ) :
                                 startswith(environ[j][1], <<"U","A","_">>) } }
        /\ \A k \in DOMAIN parsed.res.val :
              LET winner == IF EnvFor(k) # {}
                            THEN PyStr(environ[CHOOSE i \in EnvFor(k) :
                                         \A j \in EnvFor(k) : j <= i][2])
                            ELSE BelowEnv(k)
              IN parsed.res.val[k] = PostProcessed(k, winner)

\* C2's case: a key that a variable, the file and the defaults all set
C2_Witness ==
    /\ parsed.called /\ parsed.res.out = "ok"
    /\ FileLoaded /\ K_log_level \in DOMAIN FileDoc
    /\ EnvFor(K_log_level) # {}
    /\ EnvFor(K_data_dir) # {}

----------------------------------------------------------------------------
(* Claims about the cache *)

TokenPath == data_path(PyStr(K_machine_token))
WroteOk == last.op = "write_cache" /\ last.res.out = "ok"

\* C3 as stated: after write_cache(key, obj) has returned for a value obj that
\* is not a str (an object, an array, a number, a boolean, null; empty or
\* not), read_cache(key) returns a value equal to obj.
C3_RoundTripAnyValue ==
    (WroteOk /\ ~IsStr(last.arg)) => read_cache(last.key) = Returned(last.arg)

\* C3 (amended): after write_cache(key, obj) has returned for a value obj that
\* is not a str, read_cache(key) returns a value equal to obj when obj is
\* truthy (a non-empty object or array, a non-zero number, true), and the JSON
\* text of obj, a str, when obj is falsy ({}, [], 0, false, null).
C3_RoundTripTruthy ==
    (WroteOk /\ ~IsStr(last.arg)) =>
        read_cache(last.key) =
            Returned(IF Truthy(last.arg) THEN last.arg ELSE PyStr(json_dumps(last.arg)))

\* C3's case: a nested value with a str that needs escaping was written
C3_Witness == WroteOk /\ last.arg = V_list /\ last.key = PyStr(K_x)

\* C4: after write_cache(key, s) has returned for a str s that is not valid
\* JSON, read_cache(key) returns s itself, whatever the entry held before.
C4_TextRoundTrip ==
    (WroteOk /\ IsStr(last.arg) /\ ~json_loads(last.arg[2]).ok) =>
        read_cache(last.key) = Returned(last.arg)

\* C4's case: plain text was written over an entry that held other content
C4_Witness ==
    /\ WroteOk /\ last.arg = PyStr(T_plain)
    /\ last.old # None /\ last.old # last.arg

\* C5: in every reachable state, is_attached returns false whenever no
\* machine-token cache file exists in the data directory.
C5_NotAttachedWithoutFile ==
    TokenPath \notin DOMAIN files => is_attached = Returned(PyBool(FALSE))

\* C6: whatever came before, is_attached returns true right after
\* write_cache('machine-token', v) has returned for a truthy v.
C6_AttachedAfterWrite ==
    (WroteOk /\ last.key = PyStr(K_machine_token) /\ Truthy(last.arg)) =>
        is_attached = Returned(PyBool(TRUE))

\* C6's case: the token is written after a read that found nothing to
\* memoize, as a str that is JSON for an empty object
C6_Witness ==
    /\ WroteOk /\ last.key = PyStr(K_machine_token) /\ last.arg = PyStr(T_braces)
    /\ ops >= 2 /\ ~Truthy(m_machine_token)

\* C7: read_cache(key) for a key whose path does not exist returns None
\* without raising and leaves the disk as it was: no file appears, changes or
\* goes, and the data directory is not created.
C7_ReadMissingNoEffect ==
    [][(last'.op = "read_cache" /\ ops' = ops + 1 /\ ~exists(data_path(last'.key)))
          => (/\ last'.res = Returned(None)
              /\ files' = files
              /\ dir_exists' = dir_exists)]_vars

\* C7's case: a key was read while the data directory did not exist
C7_Witness ==
    last.op = "read_cache" /\ Truthy(last.key) /\ last.res = Returned(None) /\ ~dir_exists

\* the value a memoized accessor gives from the disk alone, as a new instance
\* would
FreshMachineToken == read_cache(PyStr(K_machine_token))
FreshContracts ==
    LET c == read_cache(PyStr(K_account_contracts)).val
    IN Returned(IF Truthy(c) THEN c ELSE PyList(<<>>))
FreshEntitlements == entitlements_of(FreshContracts.val).res

\* once an accessor has returned a non-empty value, it returns that value
OnceReturnedKept ==
    /\ returned.machine_token # None
          => machine_token.res = Returned(returned.machine_token)
    /\ returned.contracts # None => contracts.res = Returned(returned.contracts)
    /\ returned.entitlements # None
          => entitlements.res = Returned(returned.entitlements)

\* C9 as stated: once contracts, entitlements or machine_token has returned a
\* non-empty value, every later access returns that value, whatever was
\* written or deleted since; until then (for entitlements: while
\* _entitlements is empty) each access gives what the files hold now.
C9_MemoOrDisk ==
    /\ OnceReturnedKept
    /\ returned.machine_token = None => machine_token.res = FreshMachineToken
    /\ returned.contracts = None => contracts.res = FreshContracts
    /\ ~Truthy(m_entitlements) => entitlements.res = FreshEntitlements

\* the entitlement names of the contracts in the list c, when every contract
\* has the shape lines 98-99 go through
WellFormed(c) ==
    /\ c[1] = "list"
    /\ \A i \in 1..Len(c[2]) :
          /\ getitem(c[2][i], K_contractInfo).out = "ok"
          /\ getitem(getitem(c[2][i], K_contractInfo).val, K_resourceEntitlements).out = "ok"
          /\ getitem(getitem(c[2][i], K_contractInfo).val,
                     K_resourceEntitlements).val[1] = "dict"
NamesOf(c) ==
    UNION { { p[1] : p \in
                { getitem(getitem(c[2][i], K_contractInfo).val,
                          K_resourceEntitlements).val[2][j] :
                    j \in 1..Len(getitem(getitem(c[2][i], K_contractInfo).val,
                                         K_resourceEntitlements).val[2]) } } :
            i \in 1..Len(c[2]) }

\* C9 (amended): once contracts, entitlements or machine_token has returned a
\* non-empty value, every later access returns that value, whatever was
\* written or deleted since.  Until then machine_token and contracts give
\* what their files hold now.  entitlements, while _entitlements is empty,
\* goes through the contracts that the contracts accessor returns (memoized,
\* or re-read) and gives each of their entitlement names what its
\* machine-access file holds now.
C9_MemoOrDiskButContracts ==
    /\ OnceReturnedKept
    /\ returned.machine_token = None => machine_token.res = FreshMachineToken
    /\ returned.contracts = None => contracts.res = FreshContracts
    /\ (~Truthy(m_entitlements) /\ WellFormed(contracts.res.val)) =>
          /\ entitlements.res.out = "ok"
          /\ entitlements.res.val[1] = "dict"
          /\ { p[1] : p \in { entitlements.res.val[2][j] :
                                j \in 1..Len(entitlements.res.val[2]) } }
                = NamesOf(contracts.res.val)
          /\ \A j \in 1..Len(entitlements.res.val[2]) :
                entitlements.res.val[2][j][2] =
                    read_cache(PyStr(<<"m","a","c","h","i","n","e","-","a","c","c","e","s","s","-">>
                                     \o entitlements.res.val[2][j][1])).val

\* C9's case: the machine token was returned, its file went or changed, and
\* the next access returned the same token
C9_Witness ==
    /\ returned.machine_token # None
    /\ FreshMachineToken # Returned(returned.machine_token)
    /\ last.op = "machine_token" /\ last.res = Returned(returned.machine_token)

\* the file name a relative key stands for under the data directory
FileName(k) == IF k[2] \in DOMAIN data_paths THEN data_paths[k[2]] ELSE k[2]

\* C10 as stated: for two distinct non-empty keys, write_cache(k1, content)
\* leaves the result of read_cache(k2) as it was.
C10_KeysIsolated ==
    [][(last'.op = "write_cache" /\ ops' = ops + 1 /\ Truthy(last'.key))
          => \A k2 \in Keys :
                (Truthy(k2) /\ k2 # last'.key) => read_cache_at(dir_exists', files', k2)
                       = read_cache_at(dir_exists, files, k2)]_vars

\* C10 (amended): for two distinct non-empty relative keys, neither of which
\* is the file name the table gives the other, the two paths differ and
\* write_cache(k1, content) leaves the result of read_cache(k2) as it was.
C10_FilesIsolated ==
    [][(last'.op = "write_cache" /\ ops' = ops + 1 /\ Truthy(last'.key))
          => \A k2 \in Keys :
                (Truthy(k2) /\ FileName(k2) # FileName(last'.key))
                    => /\ data_path(k2) # data_path(last'.key)
                       /\ read_cache_at(dir_exists', files', k2)
                            = read_cache_at(dir_exists, files, k2)]_vars

\* C10's case: a key was written while another key's entry held content
C10_Witness ==
    /\ WroteOk /\ last.key = PyStr(K_x)
    /\ TokenPath \in DOMAIN files
    /\ data_path(PyStr(K_account_contracts)) \in DOMAIN files

----------------------------------------------------------------------------
(* Claims about data_path *)

\* <d>/<name> as os.path.join gives it: one '/' between the two, and name
\* alone when it starts with '/'
Joined(d, name) ==
    IF name # <<>> /\ name[1] = "/" THEN name
    ELSE IF endswith(d, <<"/">>) THEN d \o name
    ELSE d \o <<"/">> \o name

\* C8 as stated: data_path gives the data directory for an empty or absent
\* key, <data_dir>/<name>.json for each of the twelve names of the table, and
\* <data_dir>/<key> for any other key, and does not fail.
C8_TableNamesGetJson ==
    last.op = "data_path" =>
        last.res = Returned(PyStr(
            IF ~Truthy(last.key) THEN data_dir
            ELSE IF last.key[2] \in TableNames
                 THEN Joined(data_dir, last.key[2] \o <<".","j","s","o","n">>)
            ELSE Joined(data_dir, last.key[2])))

\* the keys that stand for <key>.json
SameNamedKeys == TableNames \ { <<"s","s","o","-","m","a","c","a","r","o","o","n">>, <<"s","s","o","-","o","a","u","t","h">> }

\* C8 (amended): data_path gives the data directory for an empty or absent
\* key; <data_dir>/<key>.json for the ten keys accounts, account-contracts,
\* account-users, machine-contracts, machine-access-esm, machine-access-fips,
\* machine-access-fips-updates, machine-access-livepatch, machine-detach and
\* machine-token; <data_dir>/sso-macaroon.json for the key macaroon and
\* <data_dir>/sso-oauth.json for the key oauth; and <data_dir>/<key> for any
\* other key, sso-macaroon and sso-oauth among them.  It does not fail.
C8_KeysGetTheirFile ==
    last.op = "data_path" =>
        last.res = Returned(PyStr(
            IF ~Truthy(last.key) THEN data_dir
            ELSE IF last.key[2] \in SameNamedKeys
                 THEN Joined(data_dir, last.key[2] \o <<".","j","s","o","n">>)
            ELSE IF last.key[2] = <<"m","a","c","a","r","o","o","n">>
                 THEN Joined(data_dir, <<"s","s","o","-","m","a","c","a","r","o","o","n",".","j","s","o","n">>)
            ELSE IF last.key[2] = <<"o","a","u","t","h">> THEN Joined(data_dir, <<"s","s","o","-","o","a","u","t","h",".","j","s","o","n">>)
            ELSE Joined(data_dir, last.key[2])))

\* C8's case: the key of a table entry whose file has another name was asked
\* for under a data directory written with a trailing slash
C8_Witness ==
    last.op = "data_path" /\ last.key = PyStr(<<"m","a","c","a","r","o","o","n">>) /\ data_dir = <<"/","d","/">>

====
